---- MODULE Spec2Model ----
(***************************************************************************)
(* Model of the SmartBetting pipeline: parsing of quoted exact results,    *)
(* conversion of odds to probabilities, the optional overtime adjustment,  *)
(* the scoring of every bet against every real outcome, the ranking of the *)
(* bets and the choice of the three best bets of each game.                *)
(*                                                                         *)
(* Data frames are sequences of records (one record per row, in row        *)
(* order).  Floating point numbers are modelled by exact rationals         *)
(* [n, d] with d > 0, and NaN by the record with d = 0.  Team names are    *)
(* modelled by their rank in alphabetical order and timestamps by their    *)
(* rank in time, so that the sorted order of group keys can be computed.   *)
(***************************************************************************)
EXTENDS Integers, Sequences, FiniteSets, TLC

(***************************************************************************)
(* Bounds of the model.                                                    *)
(***************************************************************************)
\* Largest number of quotes (anchors) on the parsed page.
MaxQuotes == 2
\* Fixed-point scale in which the Poisson probabilities are rounded.
PoissonScale == 1000
\* Number of terms of the exponential series used for the Poisson pmf.
PoissonTerms == 12

(***************************************************************************)
(* Exact rational arithmetic standing for float64 arithmetic.              *)
(***************************************************************************)
RECURSIVE GCD(_, _)
GCD(a, b) == IF b = 0 THEN a ELSE GCD(b, a % b)

Abs(x) == IF x < 0 THEN -x ELSE x

LCM(a, b) == (a \div GCD(a, b)) * b

NaN == [n |-> 0, d |-> 0]

IsNaN(x) == x.d = 0

\* The rational n/d (d # 0) in lowest terms with a positive denominator.
Rat(n, d) ==
    LET g == GCD(Abs(n), Abs(d))
        s == IF d < 0 THEN -1 ELSE 1
    IN  [n |-> s * (n \div g), d |-> s * (d \div g)]

RInt(k) == [n |-> k, d |-> 1]

RAdd(x, y) ==
    IF IsNaN(x) \/ IsNaN(y) THEN NaN
    ELSE LET l == LCM(x.d, y.d)
         IN  Rat(x.n * (l \div x.d) + y.n * (l \div y.d), l)

RMul(x, y) ==
    IF IsNaN(x) \/ IsNaN(y) THEN NaN
    ELSE LET a == Rat(x.n, y.d)
             b == Rat(y.n, x.d)
         IN  [n |-> a.n * b.n, d |-> a.d * b.d]

\* x / y for floats whose divisor is not zero; 0/0 is NaN.
RDiv(x, y) ==
    IF IsNaN(x) \/ IsNaN(y) \/ y.n = 0 THEN NaN
    ELSE RMul(x, Rat(y.d, y.n))

RLe(x, y) ==
    LET l == LCM(x.d, y.d)
    IN  x.n * (l \div x.d) <= y.n * (l \div y.d)

RLt(x, y) == RLe(x, y) /\ x # y

\* Sum of val[i] over the finite set S, without NaN handling.
RECURSIVE RSum(_, _)
RSum(S, val) ==
    IF S = {} THEN RInt(0)
    ELSE LET i == CHOOSE j \in S : TRUE
         IN  RAdd(val[i], RSum(S \ {i}, val))

\* pandas' groupby sum: NaN entries are skipped (skipna), an all-NaN group sums to 0.
SumSkipNa(S, val) == RSum({i \in S : ~IsNaN(val[i])}, val)

(***************************************************************************)
(* The page: the inputs of the parser.                                     *)
(***************************************************************************)
\* The games of the page: (home, away, game_datetime).  Two of them share the
\* pair of teams and differ in the date.
Fixtures ==
    { [home |-> 1, away |-> 2, game_datetime |-> 1],
      [home |-> 1, away |-> 2, game_datetime |-> 2],
      [home |-> 3, away |-> 4, game_datetime |-> 1] }

\* Result names as they may stand on the page, after split(':'): a name without
\* a colon ('any other score'), drawn results, wins of either side, and a name
\* one part of which is no number.
ResultNames ==
    { <<"x">>, <<"0", "0">>, <<"1", "1">>, <<"1", "0">>, <<"0", "1">>,
      <<"2", "0">>, <<"1", "x">> }

\* Quoted decimal odds that pass the filter odds >= 0.0: zero and two prices.
RetainedOdds == {0, 2, 4}

\* Quoted odds that the filter drops.
DroppedOdds == {-1}

\* safe_cast(val, int, default): the integer val denotes, default when it denotes none.
safe_cast(val, default) ==
    CASE val = "0" -> 0
      [] val = "1" -> 1
      [] val = "2" -> 2
      [] OTHER -> default

\* float(text) of the odds and the two parts of the result name.
parse_single_odds(name, odds_text) ==
    LET odds == RInt(odds_text)
        home_away_goals == [i \in 1..Len(name) |-> safe_cast(name[i], -1)]
    IN  IF Len(home_away_goals) = 2
        THEN [home_goals |-> home_away_goals[1],
              away_goals |-> home_away_goals[2], odds |-> odds]
        ELSE [home_goals |-> -1, away_goals |-> -1, odds |-> odds]

\* One item of parse_game's list: the game's fields and the parsed quote.
parse_game(fixture, name, odds) ==
    LET single_odds == parse_single_odds(name, odds)
    IN  [home |-> fixture.home, away |-> fixture.away,
         game_datetime |-> fixture.game_datetime,
         home_goals |-> single_odds.home_goals,
         away_goals |-> single_odds.away_goals,
         odds |-> single_odds.odds]

(***************************************************************************)
(* analysis_utils: conversion of odds to probabilities.                    *)
(***************************************************************************)
Range(s) == {s[i] : i \in 1..Len(s)}

\* NaiveOddsProbsConverter.odds_to_probs on the rows `group` of frame f:
\* 1/x raises ZeroDivisionError when some x is 0.
NaiveRaises(f, group) == \E i \in group : f[i].odds.n = 0

NaiveProb(f, group, i) ==
    LET inv_odds == [j \in group |-> RDiv(RInt(1), f[j].odds)]
        sum_inv_odds == RSum(group, inv_odds)
    IN  RDiv(inv_odds[i], sum_inv_odds)

\* The rows of f in the same groupby(['home', 'away']) group as row i.
MarketGroup(f, i) ==
    {j \in 1..Len(f) : f[j].home = f[i].home /\ f[j].away = f[i].away}

Winner(home_goals, away_goals) ==
    LET goals_diff == home_goals - away_goals
    IN  IF goals_diff > 0 THEN "home"
        ELSE IF goals_diff < 0 THEN "away"
        ELSE IF home_goals >= 0 THEN "draw"
        ELSE "None"

\* _add_basic_cols_to_games_df on one row.
BasicCols(home_goals, away_goals) ==
    [goals_diff |-> home_goals - away_goals,
     num_goals |-> home_goals + away_goals,
     winner |-> Winner(home_goals, away_goals),
     is_draw |-> (Winner(home_goals, away_goals) = "draw")]

(***************************************************************************)
(* Helpers for grouped frames.                                             *)
(***************************************************************************)
\* Lexicographic order of two integer tuples of the same length: the order in
\* which groupby (sort=True) lists its group keys.
LexLess(x, y) ==
    \E k \in 1..Len(x) : x[k] < y[k] /\ \A m \in 1..(k - 1) : x[m] = y[m]

RECURSIVE SortedKeys(_)
SortedKeys(S) ==
    IF S = {} THEN <<>>
    ELSE LET m == CHOOSE x \in S : \A y \in S \ {x} : LexLess(x, y)
         IN  <<m>> \o SortedKeys(S \ {m})

RECURSIVE Flatten(_)
Flatten(ss) == IF ss = <<>> THEN <<>> ELSE Head(ss) \o Flatten(Tail(ss))

Max(S) == CHOOSE x \in S : \A y \in S : y <= x

(***************************************************************************)
(* scipy.stats.poisson.pmf(k, mu), rounded down to PoissonScale-ths.       *)
(***************************************************************************)
\* PoissonScale * mu^j / j!, by the recurrence of the exponential series.
RECURSIVE PoissonTerm(_, _)
PoissonTerm(j, mu) ==
    IF j = 0 THEN PoissonScale
    ELSE (PoissonTerm(j - 1, mu) * mu.n) \div (mu.d * j)

RECURSIVE PoissonSeries(_, _)
PoissonSeries(j, mu) ==
    IF j = 0 THEN PoissonTerm(0, mu)
    ELSE PoissonTerm(j, mu) + PoissonSeries(j - 1, mu)

poisson_pmf(k, mu) ==
    IF IsNaN(mu) \/ mu.n < 0 THEN NaN
    ELSE IF k < 0 \/ k > PoissonTerms THEN RInt(0)
    ELSE Rat((PoissonTerm(k, mu) * PoissonScale) \div PoissonSeries(PoissonTerms, mu),
             PoissonScale)

(***************************************************************************)
(* prepare_games_df.                                                       *)
(***************************************************************************)
\* Lines 53-55: the frame of the retained quotes with the basic columns.
RetainedDf(parsed) ==
    LET kept == SelectSeq(parsed, LAMBDA q : RLe(RInt(0), q.odds))
    IN  [i \in 1..Len(kept) |->
           LET q == kept[i]
               b == BasicCols(q.home_goals, q.away_goals)
           IN  [home |-> q.home, away |-> q.away, game_datetime |-> q.game_datetime,
                home_goals |-> q.home_goals, away_goals |-> q.away_goals,
                odds |-> q.odds, goals_diff |-> b.goals_diff,
                num_goals |-> b.num_goals, winner |-> b.winner,
                is_draw |-> b.is_draw]]

\* Line 56 raises when the converter raises on some group.
ProbRaises(f) == \E i \in 1..Len(f) : NaiveRaises(f, MarketGroup(f, i))

\* Line 56: the column prob, the converter applied to each (home, away) group.
WithProb(f) ==
    [i \in 1..Len(f) |->
       [home |-> f[i].home, away |-> f[i].away, game_datetime |-> f[i].game_datetime,
        home_goals |-> f[i].home_goals, away_goals |-> f[i].away_goals,
        odds |-> f[i].odds, goals_diff |-> f[i].goals_diff,
        num_goals |-> f[i].num_goals, winner |-> f[i].winner,
        is_draw |-> f[i].is_draw,
        prob |-> NaiveProb(f, MarketGroup(f, i), i)]]

\* Lines 60-85: one row per (home, away, num_goals) group of f.  num_goals_raw is
\* the group's key, num_goals the column after line 68.
DfNumGoals(f) ==
    LET keys == {<<f[i].home, f[i].away, f[i].num_goals>> : i \in 1..Len(f)}
        rows(key) == {i \in 1..Len(f) :
                        <<f[i].home, f[i].away, f[i].num_goals>> = key}
        prob(key) == RSum(rows(key), [i \in rows(key) |-> f[i].prob])
        num_goals_max(key) ==
            Max({k[3] : k \in {c \in keys : c[1] = key[1] /\ c[2] = key[2]}})
        num_goals(key) ==
            IF key[3] < 0 THEN num_goals_max(key) + 1 ELSE key[3]
        ev_num_goals(key) == RMul(RInt(num_goals(key)), prob(key))
        ev_num_goals_ft(key) ==
            LET market == {c \in keys : c[1] = key[1] /\ c[2] = key[2]}
            IN  RSum(market, [c \in market |-> ev_num_goals(c)])
        ev_num_goals_ot(key) == RDiv(ev_num_goals_ft(key), RInt(3))
    IN  { [home |-> key[1], away |-> key[2], num_goals_raw |-> key[3],
           num_goals |-> num_goals(key), prob |-> prob(key),
           ev_num_goals_ft |-> ev_num_goals_ft(key),
           poisson_prob_ot |-> poisson_pmf(num_goals(key), ev_num_goals_ot(key))]
          : key \in keys }

\* Lines 89-91: df left-merged with df_num_goals on (home, away, num_goals).  A row
\* of df without a match keeps NaN in the merged columns.
DfOt(f) ==
    LET ng == DfNumGoals(f)
        matches(i) == {g \in ng : g.home = f[i].home /\ g.away = f[i].away
                                   /\ g.num_goals = f[i].num_goals}
        matched(i) ==
            { [idx |-> i, matched |-> TRUE, num_goals_raw |-> g.num_goals_raw,
               home |-> f[i].home, away |-> f[i].away,
               home_goals |-> f[i].home_goals, away_goals |-> f[i].away_goals,
               prob |-> RDiv(RMul(f[i].prob, g.poisson_prob_ot), g.prob)]
              : g \in matches(i) }
        unmatched(i) ==
            { [idx |-> i, matched |-> FALSE, num_goals_raw |-> 0,
               home |-> f[i].home, away |-> f[i].away,
               home_goals |-> f[i].home_goals, away_goals |-> f[i].away_goals,
               prob |-> NaN] }
    IN  UNION { IF matches(i) = {} THEN unmatched(i) ELSE matched(i)
                : i \in 1..Len(f) }

\* Lines 100-102 without the np.where: the product on every row.
ProbFtOtNoWhere(is_draw, prob, prob_ot) == RMul(prob, prob_ot)

\* Lines 100-102: np.where(is_draw, prob * prob_ot, prob).
ProbFtOt(is_draw, prob, prob_ot) ==
    IF is_draw THEN RMul(prob, prob_ot) ELSE prob

\* Lines 92-102: df left-merged with df_ot on (home, away, is_draw); every row of
\* df_ot has is_draw = True, so a drawn row of df meets every row of df_ot of its
\* (home, away) pair and any other row meets none.
DfFtOt(f) ==
    LET ot == DfOt(f)
        drawn(j) ==
            { [idx |-> j, idx_ot |-> o.idx, num_goals_raw_ot |-> o.num_goals_raw,
               home |-> f[j].home, away |-> f[j].away,
               game_datetime |-> f[j].game_datetime, is_draw |-> TRUE,
               home_goals_ot |-> o.home_goals, away_goals_ot |-> o.away_goals,
               home_goals_ft_ot |-> f[j].home_goals + o.home_goals,
               away_goals_ft_ot |-> f[j].away_goals + o.away_goals,
               prob_ft_ot |-> ProbFtOt(TRUE, f[j].prob, o.prob)]
              : o \in {x \in ot : x.home = f[j].home /\ x.away = f[j].away} }
        other(j) ==
            { [idx |-> j, idx_ot |-> 0, num_goals_raw_ot |-> 0,
               home |-> f[j].home, away |-> f[j].away,
               game_datetime |-> f[j].game_datetime, is_draw |-> FALSE,
               home_goals_ot |-> 0, away_goals_ot |-> 0,
               home_goals_ft_ot |-> f[j].home_goals,
               away_goals_ft_ot |-> f[j].away_goals,
               prob_ft_ot |-> ProbFtOt(FALSE, f[j].prob, NaN)] }
    IN  UNION { IF f[j].is_draw THEN drawn(j) ELSE other(j) : j \in 1..Len(f) }

AggKey(r) ==
    <<r.home, r.away, r.game_datetime, r.home_goals_ft_ot, r.away_goals_ft_ot>>

\* Lines 105-110 on one group: the sum of prob_ft_ot over the rows of df_ft_ot
\* with the key, renamed to prob.
AggRow(ftot, key) ==
    LET rows == {r \in ftot : AggKey(r) = key}
    IN  [home |-> key[1], away |-> key[2], game_datetime |-> key[3],
         home_goals |-> key[4], away_goals |-> key[5],
         prob |-> SumSkipNa(rows, [r \in rows |-> r.prob_ft_ot])]

AggRows(ftot, keys) == [k \in 1..Len(keys) |-> AggRow(ftot, keys[k])]

\* Lines 105-110: the sum of prob_ft_ot of each final result of each game, in the
\* sorted order of the group keys.
DfFtOtAgg(ftot) == AggRows(ftot, SortedKeys({AggKey(r) : r \in ftot}))

\* Lines 115-118 on one row of the merge: the basic columns again and the columns
\* of df, odds taken from the matching row of df.
ResRow(a, odds) ==
    LET b == BasicCols(a.home_goals, a.away_goals)
    IN  [home |-> a.home, away |-> a.away, game_datetime |-> a.game_datetime,
         home_goals |-> a.home_goals, away_goals |-> a.away_goals,
         odds |-> odds, goals_diff |-> b.goals_diff,
         num_goals |-> b.num_goals, winner |-> b.winner,
         is_draw |-> b.is_draw, prob |-> a.prob]

\* Line 115: the rows that the left merge on (home, away, home_goals, away_goals)
\* makes of row a of the aggregate: one per matching row of df, or one without.
MergedRows(f, a) ==
    LET hits == SelectSeq(f, LAMBDA r : /\ r.home = a.home /\ r.away = a.away
                                        /\ r.home_goals = a.home_goals
                                        /\ r.away_goals = a.away_goals)
    IN  IF hits = <<>> THEN <<ResRow(a, NaN)>>
        ELSE [m \in 1..Len(hits) |-> ResRow(a, hits[m].odds)]

\* Lines 115-118: the aggregate left-merged with df.
DfRes(f, agg) == Flatten([k \in 1..Len(agg) |-> MergedRows(f, agg[k])])

\* Lines 58-118: the overtime adjustment of the frame f of line 56.
OvertimeAdjusted(f) == DfRes(f, DfFtOtAgg(DfFtOt(f)))

(***************************************************************************)
(* analyze_games_df and the script of main.py.                             *)
(***************************************************************************)
\* Defaults of the scoring rule (the RULES section of the configuration).
points_per_exact == 4
points_per_goal_diff == 2
points_per_winner == 1

\* Lines 147-150 with the goal difference tested before the exact result.
PointsDiffFirst(bet, real) ==
    LET exact_result_hit == /\ bet.home_goals = real.home_goals
                            /\ bet.away_goals = real.away_goals
        goal_diff_hit == bet.goals_diff = real.goals_diff
        winner_hit == /\ bet.winner = real.winner
                      /\ bet.winner # "None"
    IN  IF goal_diff_hit THEN points_per_goal_diff
        ELSE IF exact_result_hit THEN points_per_exact
        ELSE IF winner_hit THEN points_per_winner
        ELSE 0

\* Lines 142-150 on one (bet, real) pair of rows.  An elementwise == of two
\* object columns is False wherever one side is None.
Points(bet, real) ==
    LET exact_result_hit == /\ bet.home_goals = real.home_goals
                            /\ bet.away_goals = real.away_goals
        goal_diff_hit == bet.goals_diff = real.goals_diff
        winner_hit == /\ bet.winner = real.winner
                      /\ bet.winner # "None"
    IN  IF exact_result_hit THEN points_per_exact
        ELSE IF goal_diff_hit THEN points_per_goal_diff
        ELSE IF winner_hit THEN points_per_winner
        ELSE 0

\* Line 140: the pairs of rows that the self-merge on (home, away, game_datetime)
\* puts together.
CrossPairs(g) ==
    {p \in (1..Len(g)) \X (1..Len(g)) :
        /\ g[p[1]].home = g[p[2]].home
        /\ g[p[1]].away = g[p[2]].away
        /\ g[p[1]].game_datetime = g[p[2]].game_datetime}

\* analyze_games_df: one row per pair, identified by the two row positions.
AnalyzeDf(g) ==
    { [idx_bet |-> p[1], idx_real |-> p[2],
       home |-> g[p[1]].home, away |-> g[p[1]].away,
       game_datetime |-> g[p[1]].game_datetime,
       home_goals_bet |-> g[p[1]].home_goals, away_goals_bet |-> g[p[1]].away_goals,
       home_goals_real |-> g[p[2]].home_goals, away_goals_real |-> g[p[2]].away_goals,
       goals_diff_bet |-> g[p[1]].goals_diff, goals_diff_real |-> g[p[2]].goals_diff,
       winner_bet |-> g[p[1]].winner, winner_real |-> g[p[2]].winner,
       prob_real |-> g[p[2]].prob,
       points |-> Points(g[p[1]], g[p[2]]),
       points_EV |-> RMul(RInt(Points(g[p[1]], g[p[2]])), g[p[2]].prob)]
      : p \in CrossPairs(g) }

BetKey(r) == <<r.home, r.away, r.game_datetime, r.home_goals_bet, r.away_goals_bet>>

\* main.py lines 58-60 on one group: the sum of points_EV of one candidate bet.
EVRow(cross, key) ==
    LET rows == {r \in cross : BetKey(r) = key}
    IN  [home |-> key[1], away |-> key[2], game_datetime |-> key[3],
         home_goals_bet |-> key[4], away_goals_bet |-> key[5],
         points_EV |-> SumSkipNa(rows, [r \in rows |-> r.points_EV])]

EVRows(cross, keys) == [k \in 1..Len(keys) |-> EVRow(cross, keys[k])]

\* main.py lines 58-60: the sum of points_EV of each candidate bet of each game,
\* in the sorted order of the group keys.
ResultsEV(cross) == EVRows(cross, SortedKeys({BetKey(r) : r \in cross}))

\* The orders in which sort_values(['points_EV'], ascending=[False]) may leave the
\* rows S of frame f: the sort is pandas' default quicksort, which is no stable
\* sort, so rows of equal points_EV may come out in any order.
RECURSIVE SortOrders(_, _)
SortOrders(f, S) ==
    IF S = {} THEN {<<>>}
    ELSE LET top == {i \in S : \A j \in S : RLe(f[j].points_EV, f[i].points_EV)}
         IN  UNION { {<<i>> \o rest : rest \in SortOrders(f, S \ {i})} : i \in top }

SameGame(r, q) ==
    r.home = q.home /\ r.away = q.away /\ r.game_datetime = q.game_datetime

\* Lines 63-66: groupby(game).cumcount() + 1 along the sorted order, put back on
\* the rows by their index.
WithBetRank(f, order) ==
    [i \in 1..Len(f) |->
       LET pos == CHOOSE k \in 1..Len(order) : order[k] = i
       IN  [home |-> f[i].home, away |-> f[i].away,
            game_datetime |-> f[i].game_datetime,
            home_goals_bet |-> f[i].home_goals_bet,
            away_goals_bet |-> f[i].away_goals_bet,
            points_EV |-> f[i].points_EV,
            bet_rank |-> 1 + Cardinality({k \in 1..(pos - 1) :
                                            SameGame(f[order[k]], f[i])})]]

\* Lines 69-72: the inner merges of the rows of rank 1, 2 and 3 on the game.
BestBets(f) ==
    LET ranked(n) == {r \in Range(f) : r.bet_rank = n}
    IN  { [home |-> a.home, away |-> a.away, game_datetime |-> a.game_datetime,
           home_goals_bet_1st |-> a.home_goals_bet,
           away_goals_bet_1st |-> a.away_goals_bet,
           points_EV_1st |-> a.points_EV,
           home_goals_bet_2nd |-> b.home_goals_bet,
           away_goals_bet_2nd |-> b.away_goals_bet,
           points_EV_2nd |-> b.points_EV,
           home_goals_bet |-> c.home_goals_bet,
           away_goals_bet |-> c.away_goals_bet,
           points_EV |-> c.points_EV]
          : <<a, b, c>> \in {t \in ranked(1) \X ranked(2) \X ranked(3) :
                               SameGame(t[1], t[2]) /\ SameGame(t[1], t[3])} }

(***************************************************************************)
(* The state of one run of the script.                                     *)
(***************************************************************************)
VARIABLES pc, parsed_games, apply_ot_adj, df, games_df, analysis_df,
          results_EV_df, best_bets

vars == <<pc, parsed_games, apply_ot_adj, df, games_df, analysis_df,
          results_EV_df, best_bets>>

\* The items parse_games may return: every result name at every retained price in
\* every game, and one quote of dropped odds (line 54 of prepare_games_df drops
\* it whatever its game and result name, so one stands for all of them).
PageQuotes ==
    { parse_game(fx, nm, od) : fx \in Fixtures, nm \in ResultNames, od \in RetainedOdds }
    \cup { parse_game(CHOOSE fx \in Fixtures : TRUE, <<"x">>, od) : od \in DroppedOdds }

\* The parsed page and the configuration; nothing is computed yet.
Init ==
    /\ pc = "prepare"
    /\ \E n \in 1..MaxQuotes : parsed_games \in [1..n -> PageQuotes]
    /\ apply_ot_adj \in BOOLEAN
    /\ df = <<>>
    /\ games_df = <<>>
    /\ analysis_df = {}
    /\ results_EV_df = <<>>
    /\ best_bets = {}

\* main.py line 45: prepare_games_df(parsed_games, odds_converter, APPLY_OT_ADJ).
\* df is the frame after line 56, which is also what the function returns without
\* the overtime adjustment.  An exception of the converter ends the script.
PrepareGamesDf ==
    /\ pc = "prepare"
    /\ LET retained == RetainedDf(parsed_games)
       IN  IF ProbRaises(retained)
           THEN /\ pc' = "failed"
                /\ UNCHANGED <<df, games_df>>
           ELSE /\ df' = WithProb(retained)
                /\ games_df' = IF apply_ot_adj THEN OvertimeAdjusted(df') ELSE df'
                /\ pc' = "analyze"
    /\ UNCHANGED <<parsed_games, apply_ot_adj, analysis_df, results_EV_df, best_bets>>

\* main.py lines 52-55.
AnalyzeGamesDf ==
    /\ pc = "analyze"
    /\ analysis_df' = AnalyzeDf(games_df)
    /\ pc' = "ev"
    /\ UNCHANGED <<parsed_games, apply_ot_adj, df, games_df, results_EV_df, best_bets>>

\* main.py lines 58-60.
ComputeEV ==
    /\ pc = "ev"
    /\ results_EV_df' = ResultsEV(analysis_df)
    /\ pc' = "rank"
    /\ UNCHANGED <<parsed_games, apply_ot_adj, df, games_df, analysis_df, best_bets>>

\* main.py lines 63-66.
RankBets ==
    /\ pc = "rank"
    /\ \E order \in SortOrders(results_EV_df, 1..Len(results_EV_df)) :
         results_EV_df' = WithBetRank(results_EV_df, order)
    /\ pc' = "pick"
    /\ UNCHANGED <<parsed_games, apply_ot_adj, df, games_df, analysis_df, best_bets>>

\* main.py lines 69-72.
PickBestBets ==
    /\ pc = "pick"
    /\ best_bets' = BestBets(results_EV_df)
    /\ pc' = "done"
    /\ UNCHANGED <<parsed_games, apply_ot_adj, df, games_df, analysis_df,
                   results_EV_df>>

Next ==
    \/ PrepareGamesDf
    \/ AnalyzeGamesDf
    \/ ComputeEV
    \/ RankBets
    \/ PickBestBets

Spec == Init /\ [][Next]_vars

(***************************************************************************)
(* Properties.                                                             *)
(***************************************************************************)
Prepared == pc \in {"analyze", "ev", "rank", "pick", "done"}

Scored == pc \in {"ev", "rank", "pick", "done"}

Ranked == pc \in {"pick", "done"}

GameKey(r) == <<r.home, r.away, r.game_datetime>>

GameKeys(f) == {GameKey(f[i]) : i \in 1..Len(f)}

GameRows(f, key) == {i \in 1..Len(f) : GameKey(f[i]) = key}

\* Sum of the column prob over the rows of one game.
GameProbSum(f, key) == RSum(GameRows(f, key), [i \in GameRows(f, key) |-> f[i].prob])

\* C1: without the overtime adjustment, the probabilities of the retained quotes
\* of every game (home, away, game_datetime) sum to 1.
C1_GameProbsSumToOne ==
    (Prepared /\ ~apply_ot_adj) =>
        \A key \in GameKeys(games_df) : GameProbSum(games_df, key) = RInt(1)

\* C2: with the overtime adjustment, the probabilities of the rows of the combined
\* distribution of every game sum to 1.
C2_OvertimeProbsSumToOne ==
    (Prepared /\ apply_ot_adj) =>
        \A key \in GameKeys(games_df) : GameProbSum(games_df, key) = RInt(1)

\* A quoted regulation result that is no draw and whose goals are both known.
KnownNonDraw(r) ==
    r.home_goals >= 0 /\ r.away_goals >= 0 /\ r.home_goals # r.away_goals

SameResult(r, q) ==
    SameGame(r, q) /\ r.home_goals = q.home_goals /\ r.away_goals = q.away_goals

\* The probability of the result of row i of df in the output without the
\* overtime adjustment (df itself): the mass of the rows quoting it.
FtProb(i) ==
    LET rows == {j \in 1..Len(df) : SameResult(df[j], df[i])}
    IN  RSum(rows, [j \in rows |-> df[j].prob])

\* Some drawn regulation result of the game of row i, with a result quoted in the
\* same (home, away) market added as the overtime score, gives the result of row i.
ReachedThroughOvertime(i) ==
    \E j \in 1..Len(df), o \in 1..Len(df) :
        /\ SameGame(df[j], df[i]) /\ df[j].is_draw
        /\ df[o].home = df[i].home /\ df[o].away = df[i].away
        /\ df[j].home_goals + df[o].home_goals = df[i].home_goals
        /\ df[j].away_goals + df[o].away_goals = df[i].away_goals

\* C3 as stated: the overtime adjustment leaves the probability of every quoted
\* non-drawn result as it is without the adjustment.
C3_NonDrawUnchanged ==
    (Prepared /\ apply_ot_adj) =>
        \A i \in 1..Len(df) : KnownNonDraw(df[i]) =>
            /\ \E k \in 1..Len(games_df) : SameResult(games_df[k], df[i])
            /\ \A k \in 1..Len(games_df) : SameResult(games_df[k], df[i]) =>
                   games_df[k].prob = FtProb(i)

\* C3 amended: the overtime adjustment never lowers the probability of a quoted
\* non-drawn result, and raises it only when the result is also reached from a
\* drawn regulation result of the game by an overtime score quoted in the market.
C3_NonDrawNeverLoses ==
    (Prepared /\ apply_ot_adj) =>
        \A i \in 1..Len(df) : KnownNonDraw(df[i]) =>
            /\ \E k \in 1..Len(games_df) : SameResult(games_df[k], df[i])
            /\ \A k \in 1..Len(games_df) : SameResult(games_df[k], df[i]) =>
                   /\ RLe(FtProb(i), games_df[k].prob)
                   /\ games_df[k].prob # FtProb(i) => ReachedThroughOvertime(i)

\* A quoted non-drawn result whose probability the overtime adjustment has raised.
C3_Witness ==
    /\ Prepared /\ apply_ot_adj
    /\ \E i \in 1..Len(df), k \in 1..Len(games_df) :
          /\ KnownNonDraw(df[i]) /\ SameResult(games_df[k], df[i])
          /\ RLt(FtProb(i), games_df[k].prob)

\* C4: the points of every (bet, real) pair follow the strict priority exact
\* result, goal difference, winner, nothing; exactly the pairs of rows of the same
\* game are scored, N * N of them for a game of N rows.
C4_PointsByPriority ==
    Scored =>
        /\ \A r \in analysis_df :
              LET exact == /\ r.home_goals_bet = r.home_goals_real
                           /\ r.away_goals_bet = r.away_goals_real
                  diff == r.goals_diff_bet = r.goals_diff_real
                  winner == r.winner_bet = r.winner_real
              IN  /\ exact => r.points = points_per_exact
                  /\ (~exact /\ diff) => r.points = points_per_goal_diff
                  /\ (~exact /\ ~diff /\ winner) => r.points = points_per_winner
                  /\ (~exact /\ ~diff /\ ~winner) => r.points = 0
                  /\ r.points_EV = RMul(RInt(r.points), r.prob_real)
                  /\ SameGame(games_df[r.idx_bet], games_df[r.idx_real])
        /\ \A key \in GameKeys(games_df) :
              LET n == Cardinality(GameRows(games_df, key))
              IN  Cardinality({r \in analysis_df : GameKey(r) = key}) = n * n
        /\ Cardinality(analysis_df) =
              Cardinality({<<r.idx_bet, r.idx_real>> : r \in analysis_df})

\* A game of three rows scored pair by pair, with a pair of equal results, a pair
\* that agrees in the goal difference and the winner, and a pair that agrees in
\* nothing.
C4_Witness ==
    /\ pc = "ev"
    /\ \E a \in analysis_df, b \in analysis_df, c \in analysis_df :
          /\ GameKey(a) = GameKey(b) /\ GameKey(b) = GameKey(c)
          /\ a.points = points_per_exact
          /\ b.points = points_per_goal_diff /\ b.winner_bet = b.winner_real
          /\ c.points = 0
          /\ Cardinality({r \in analysis_df : GameKey(r) = GameKey(a)}) = 9

\* C5: no candidate bet has an expected value above points_per_exact.
C5_EVAtMostExact ==
    pc \in {"rank", "pick", "done"} =>
        \A k \in 1..Len(results_EV_df) :
            RLe(results_EV_df[k].points_EV, RInt(points_per_exact))

\* C6: a retained quote with a sentinel -1 in home_goals or away_goals gets no
\* winner label and is_draw False.
C6_SentinelHasNoWinner ==
    Prepared =>
        \A i \in 1..Len(df) :
            (df[i].home_goals = -1 \/ df[i].away_goals = -1) =>
                df[i].winner = "None" /\ ~df[i].is_draw

\* C7: within each game bet_rank is a permutation of 1..N by descending expected
\* value, and of two bets of equal expected value the one that comes first in the
\* frame has the smaller rank.
C7_RankStableDescending ==
    Ranked =>
        \A key \in GameKeys(results_EV_df) :
            LET rows == GameRows(results_EV_df, key)
            IN  /\ {results_EV_df[i].bet_rank : i \in rows} = 1..Cardinality(rows)
                /\ \A i \in rows, j \in rows :
                      /\ RLt(results_EV_df[j].points_EV, results_EV_df[i].points_EV)
                            => results_EV_df[i].bet_rank < results_EV_df[j].bet_rank
                      /\ (i < j /\ results_EV_df[i].points_EV = results_EV_df[j].points_EV)
                            => results_EV_df[i].bet_rank < results_EV_df[j].bet_rank

\* C8: every game with a scored quote has its entry in best_bets.
C8_EveryGameHasBestBets ==
    pc = "done" =>
        \A key \in GameKeys(games_df) : \E b \in best_bets : GameKey(b) = key

\* C9: a failure of the conversion is confined to the game whose market is
\* degenerate: the run fails only if every game of the batch is of such a market.
C9_FailureIsolated ==
    pc = "failed" =>
        LET retained == RetainedDf(parsed_games)
        IN  \A i \in 1..Len(retained) : NaiveRaises(retained, MarketGroup(retained, i))

\* C10: every row of the overtime-adjusted output is a quoted regulation result
\* that is no draw, or a drawn regulation result plus a quoted overtime result
\* both goal counts of which are known.
C10_NoSentinelOvertime ==
    (Prepared /\ apply_ot_adj) =>
        \A k \in 1..Len(games_df) :
            \/ \E i \in 1..Len(df) : SameResult(df[i], games_df[k]) /\ ~df[i].is_draw
            \/ \E j \in 1..Len(df), o \in 1..Len(df) :
                  /\ SameGame(df[j], games_df[k]) /\ df[j].is_draw
                  /\ df[o].home = df[j].home /\ df[o].away = df[j].away
                  /\ df[o].home_goals >= 0 /\ df[o].away_goals >= 0
                  /\ df[j].home_goals + df[o].home_goals = games_df[k].home_goals
                  /\ df[j].away_goals + df[o].away_goals = games_df[k].away_goals
====
